---- MODULE Spec2Model ----
(***************************************************************************)
(* Retention / funnel dashboard (src/pages/rentention/app.py).             *)
(*                                                                         *)
(* The state is the wall clock, the event index behind the Elasticsearch   *)
(* client, the two st.cache_data caches, and the position of the page      *)
(* script inside calculate_funnel / calculate_retention.  One script run   *)
(* is: calculate_funnel() (search_funnel, then calculate_retention(1),     *)
(* then the join), then calculate_retention(interval chosen on the page).  *)
(* A step of the script holds at most one reading of the clock that can be *)
(* told apart from the next one and at most one answer of the gateway; the *)
(* clock may advance and events may be indexed between any two steps.      *)
(***************************************************************************)
EXTENDS Integers, Sequences, FiniteSets, TLC

(* ------------------------------ bounds -------------------------------- *)
\* Local calendar day (days since 1970-01-01) on which the model starts:
\* 19787 is 2024-03-05, so that the 14-day windows span the leap day.
StartDay == 19787
\* How many times the clock advances, by TickSeconds each time.
MaxTicks == 1
\* How many events are indexed while the page is running.
MaxIndexed == 1
\* How many times the page script is run.
MaxRuns == 2
\* How many of the radio button's options the user selects among, in the
\* order of the page.
MaxOption == 2
\* How many times calculate_retention is called, when called on its own.
MaxCalls == 3
\* How many of a call's identifier queries another caller of
\* get_unique_user_ids sends ahead of the call's loop.
MaxAhead == 2

(* ------------------------- program constants -------------------------- *)
TTL == 3600
NumDays == 14
\* "size" of the terms aggregation (line 42).
TermsSize == 10000
DaySeconds == 24 * 3600
TzOffset == 8 * 3600
TickSeconds == TTL \div 2

SIGN_UP == "backend-sign_up"
ROOT == "root"

(* ------------------------------ dates --------------------------------- *)
\* datetime.now(timezone): the wall clock of Asia/Shanghai, in seconds.
LocalNow(clk) == clk + TzOffset

\* strftime("%Y-%m-%d") of a local time: the civil date <<year, month, day>>
\* of its calendar day (proleptic Gregorian calendar).
CivilFromDays(n) ==
    LET z   == n + 719468
        era == z \div 146097
        doe == z - era * 146097
        yoe == (doe - doe \div 1460 + doe \div 36524 - doe \div 146096) \div 365
        doy == doe - (365 * yoe + yoe \div 4 - yoe \div 100)
        mp  == (5 * doy + 2) \div 153
        d   == doy - (153 * mp + 2) \div 5 + 1
        m   == IF mp < 10 THEN mp + 3 ELSE mp - 9
        y   == yoe + era * 400 + (IF m <= 2 THEN 1 ELSE 0)
    IN  <<y, m, d>>

Strftime(local) == CivilFromDays(local \div DaySeconds)

\* The day number of a civil date, as the gateway parses date + "T00:00:00".
DaysFromCivil(date) ==
    LET m   == date[2]
        y   == IF m <= 2 THEN date[1] - 1 ELSE date[1]
        era == y \div 400
        yoe == y - era * 400
        doy == (153 * (IF m > 2 THEN m - 3 ELSE m + 9) + 2) \div 5 + date[3] - 1
        doe == yoe * 365 + yoe \div 4 - yoe \div 100 + doy
    IN  era * 146097 + doe - 719468

\* Order of two "%Y-%m-%d" strings (lexicographic, four-digit years).
DateLt(a, b) ==
    \/ a[1] < b[1]
    \/ a[1] = b[1] /\ a[2] < b[2]
    \/ a[1] = b[1] /\ a[2] = b[2] /\ a[3] < b[3]

(* --------------------------- event index ------------------------------ *)
\* Epoch second of hh:mm on local day n.
At(n, hh, mm) == n * DaySeconds - TzOffset + hh * 3600 + mm * 60

Ev(t, nm, uid, vid) == [ts |-> t, name |-> nm, userId |-> uid, visitorId |-> vid]

\* Three sign-ups on StartDay-2, three returning users the day after, and
\* anonymous traffic at the edges of the 14-day window.
BaseEvents ==
    { Ev(At(StartDay - 2, 12, 0), SIGN_UP, 1, "a"),
      Ev(At(StartDay - 2, 12, 0), SIGN_UP, 2, "b"),
      Ev(At(StartDay - 2, 12, 0), SIGN_UP, 3, "c"),
      Ev(At(StartDay - 1, 12, 0), ROOT, 2, "b"),
      Ev(At(StartDay - 1, 12, 0), ROOT, 3, "c"),
      Ev(At(StartDay - 1, 12, 0), ROOT, 4, "d") }

EdgeEvents ==
    { Ev(At(StartDay - 14, 23, 45), ROOT, 0, "v"),
      Ev(At(StartDay - 13, 12, 0), ROOT, 0, "w") }

\* Events that arrive while the page is running.
LateEvents ==
    { Ev(At(StartDay - 2, 13, 0), SIGN_UP, 4, "d"),
      Ev(At(StartDay - 1, 13, 0), ROOT, 1, "a") }

InitialIndexes == { BaseEvents \cup EdgeEvents, {} }

\* The page is first opened half an hour before midnight.
StartTime == At(StartDay, 23, 30)

\* Lines 246-262: the interval of each option of the radio button, in the
\* order of the page.
interval_days_map == <<1, 3, 7, 15, 30>>

(* ---------------------- Query Gateway (client.search) ----------------- *)
\* The term aggregation of get_unique_user_ids: the distinct message.userId
\* of the events named message_name with date T00:00:00 <= @timestamp <
\* date T23:59:59 in +08:00.  At most TermsSize buckets come back: those
\* of the most documents, the smaller key first among equals.
TermBucketUsers(idx, date, message_name) ==
    LET gte == DaysFromCivil(date) * DaySeconds - TzOffset
        lt  == gte + 23 * 3600 + 59 * 60 + 59
        docs == { x \in idx : /\ x.name = message_name
                              /\ gte <= x.ts
                              /\ x.ts < lt }
        keys == { e.userId : e \in docs }
        doc_count(u) == Cardinality({ x \in docs : x.userId = u })
        Before(v, u) == \/ doc_count(v) > doc_count(u)
                        \/ doc_count(v) = doc_count(u) /\ v < u
    IN  IF Cardinality(keys) <= TermsSize THEN keys
        ELSE { u \in keys :
                 Cardinality({ v \in keys : Before(v, u) }) < TermsSize }

SetMin(S) == CHOOSE x \in S : \A y \in S : x <= y
SetMax(S) == CHOOSE x \in S : \A y \in S : y <= x

\* One bucket of the date_histogram: the three filtered cardinalities of
\* the events of local day k among docs.
Bucket(docs, k) ==
    LET ofDay == { e \in docs : (e.ts + TzOffset) \div DaySeconds = k }
    IN  [ key_as_string |-> CivilFromDays(k),
          userId_all    |-> Cardinality({ e.visitorId : e \in { x \in ofDay : x.userId >= 0 } }),
          userId_not_0  |-> Cardinality({ e.visitorId : e \in { x \in ofDay : x.userId > 0 } }),
          new_sign_up   |-> Cardinality({ e.userId : e \in { x \in ofDay : x.name = SIGN_UP } }) ]

\* Line 94: end_date, from the clock reading clk.
EndDate(clk) == clk - 1 * DaySeconds

\* The response to search_funnel's query for the window ending at ed: the
\* range filter keeps start_date <= @timestamp <= end_date, and the
\* histogram returns one bucket per local day from the first day that
\* holds a matching event to the last one (empty days in between included).
DailyHistogram(idx, ed) ==
    LET start_date == ed - (NumDays - 1) * DaySeconds
        docs == { e \in idx : start_date <= e.ts /\ e.ts <= ed }
        keys == { (e.ts + TzOffset) \div DaySeconds : e \in docs }
    IN  IF keys = {} THEN << >>
        ELSE [ j \in 1..(SetMax(keys) - SetMin(keys) + 1) |->
                   Bucket(docs, SetMin(keys) + j - 1) ]

(* ------------------------- st.cache_data(ttl) ------------------------- *)
\* Mutant: the cache is keyed by the date alone.
IdCacheKeyDateOnly(date, message_name) == <<date>>

\* The key under which get_unique_user_ids caches a result: its arguments.
IdCacheKey(date, message_name) == <<date, message_name>>

\* Mutant: entries never expire.
FreshForever(e, now) == TRUE

\* An entry stored at time e.at can be served at time now.
Fresh(e, now) == now - e.at < TTL

\* Mutant: the key is stored, the set is not.
CachePutEmpty(cache, key, now, val) ==
    { e \in cache : e.key # key } \cup { [key |-> key, at |-> now, val |-> {}] }

CacheHits(cache, key, now) == { e \in cache : e.key = key /\ Fresh(e, now) }

CachePut(cache, key, now, val) ==
    { e \in cache : e.key # key } \cup { [key |-> key, at |-> now, val |-> val] }

(* -------------------------- retention arithmetic ---------------------- *)
GCD(a, b) ==
    LET RECURSIVE G(_, _)
        G(x, y) == IF y = 0 THEN x ELSE G(y, x % y)
    IN  G(a, b)

\* The quotient n / d of two lengths, d > 0, as a fraction in lowest terms.
Ratio(n, d) == LET g == GCD(n, d) IN <<n \div g, d \div g>>

\* Mutant: the returning set is counted without intersecting it.
RetentionCountNoIntersect(unique_userIds, after_interval) ==
    Cardinality(after_interval)

\* Lines 69-78: the count and the rate of one point.
RetentionCount(unique_userIds, after_interval) ==
    Cardinality(after_interval \cap unique_userIds)

RetentionRate(unique_userIds, after_interval) ==
    IF unique_userIds # {}
    THEN Ratio(Cardinality(after_interval \cap unique_userIds),
               Cardinality(unique_userIds))
    ELSE <<0, 1>>

\* Lines 57-62: the two date strings of offset i, from one clock reading.
DayOf(clk, i, interval) == LocalNow(clk) - (i + interval - 1) * DaySeconds
DayStr(clk, i, interval) == Strftime(DayOf(clk, i, interval))
NextDayStr(clk, i, interval) ==
    Strftime(DayOf(clk, i, interval) + interval * DaySeconds)

Reverse(s) == [ k \in 1..Len(s) |-> s[Len(s) + 1 - k] ]

(* ------------------------------- state -------------------------------- *)
VARIABLES
    clock,             \* epoch seconds
    index,             \* the events held by the index monitor-prod-20*
    idCache,           \* st.cache_data of get_unique_user_ids
    funnelCache,       \* st.cache_data of search_funnel
    request,           \* the client.search call that is out, if any
    pc,                \* where the page script is
    runs,              \* script runs started so far
    option,            \* interval_days selected by the radio button
    end_date,          \* search_funnel's local, while its query is out
    caller,            \* who called calculate_retention: "funnel" or "page"
    interval_days,     \* calculate_retention's argument
    pending,           \* what the iterator of range(1, 15) has yet to give
    i,                 \* the loop variable
    day_str,           \* the two date strings of the iteration
    next_day_str,
    unique_userIds,    \* the set returned on line 66
    dates,             \* the three lists
    retention_rates,
    rentention_count,
    data,              \* calculate_funnel's parsed histogram rows
    retDf,             \* the DataFrame calculate_retention returned
    funnelDf,          \* the DataFrame calculate_funnel returned
    \* history, read by the properties only
    fetched,           \* per loop iteration: the dates asked for, the sets served
    seen,              \* of the running call: the days read off the clock, the
                       \* index versions met, whether an outdated set was
                       \* served, where the sets came from
    response,          \* the histogram response calculate_funnel worked on
    gatewayLog,        \* per (date, event name): the gateway's latest answer
    lastGet,           \* the latest return of get_unique_user_ids
    failedOp,          \* the operation in which a gateway call failed
    calls,             \* the last two completed calculate_retention calls
    other,             \* the client.search call of another caller that is out
    ahead              \* the queries the other caller has sent

vars == <<clock, index, idCache, funnelCache, request, pc, runs, option,
          end_date, caller, interval_days, pending, i, day_str, next_day_str,
          unique_userIds, dates, retention_rates, rentention_count, data,
          retDf, funnelDf, fetched, seen, response, gatewayLog, lastGet,
          failedOp, calls, other, ahead>>

\* The other caller of get_unique_user_ids.
aside == <<other, ahead>>

locals == <<caller, interval_days, pending, i, day_str, next_day_str,
            unique_userIds, dates, retention_rates, rentention_count, fetched,
            seen>>

session == <<runs, option>>

NoTable == << >>
NoDate == <<0, 0, 0>>
NoneSeen == [days |-> {}, curs |-> {}, old |-> FALSE, src |-> {}]
NoGet == [date |-> NoDate, name |-> "", val |-> {}, at |-> 0, current |-> {}]
NoResponse == [buckets |-> << >>, at |-> 0, hit |-> FALSE]

\* Number of index changes so far (the index only grows).
Version(idx) == Cardinality(idx \cap LateEvents)

(* --------------------------- client.search ---------------------------- *)
NoRequest ==
    [state |-> "none", kind |-> "none", date |-> NoDate, name |-> "",
     err |-> FALSE, val |-> {}, old |-> FALSE]

\* Line 18 (kind "ids") or line 143 (kind "funnel"): the request is sent.
Out(kind, date, message_name) ==
    [state |-> "out", kind |-> kind, date |-> date, name |-> message_name,
     err |-> FALSE, val |-> {}, old |-> FALSE]

\* The gateway's answer to the query of line 18; ok = FALSE is a call that
\* raises.
Search(idx, date, message_name, ok) ==
    IF ok THEN [err |-> FALSE, val |-> TermBucketUsers(idx, date, message_name)]
    ELSE [err |-> TRUE, val |-> {}]

\* The gateway's answer to the query of line 143 for the window ending at ed.
FunnelQuery(idx, ed, ok) ==
    IF ok THEN [err |-> FALSE, val |-> DailyHistogram(idx, ed)]
    ELSE [err |-> TRUE, val |-> << >>]

\* Mutant: the exception is caught and the empty result used.
PropagatesNever(r) == FALSE

\* An exception raised by client.search (lines 18, 143) is caught neither
\* there nor on lines 66-67, 149, 168: it ends the operation.
Propagates(r) == r.err

\* History: the gateway's latest answer for (date, message_name), the time
\* it arrived, and whether the events it was computed from have changed
\* since it was computed.
LogPut(log, date, message_name, now, val, old) ==
    { g \in log : g.key # <<date, message_name>> }
        \cup { [key |-> <<date, message_name>>, at |-> now, val |-> val, old |-> old] }

LogOld(log, date, message_name) ==
    \E g \in log : g.key = <<date, message_name>> /\ g.old

\* The index changes from idx to idx2: the answers it changes are outdated.
Outdate(log, idx, idx2) ==
    { [ g EXCEPT !.old = @ \/ TermBucketUsers(idx2, g.key[1], g.key[2])
                                # TermBucketUsers(idx, g.key[1], g.key[2]) ] :
      g \in log }

OutdateRequest(r, idx, idx2) ==
    IF r.state = "answered" /\ r.kind = "ids" /\ ~r.err
    THEN [ r EXCEPT !.old = @ \/ TermBucketUsers(idx2, r.date, r.name)
                                   # TermBucketUsers(idx, r.date, r.name) ]
    ELSE r

(* ---------------------------- search_funnel --------------------------- *)
\* The cache decorator of line 92 (no arguments: a single key).
FunnelHits(cache, now) == { e \in cache : Fresh(e, now) }

\* Lines 152-165: one row per bucket, in the order of the response.
ParseBuckets(buckets) ==
    [ k \in 1..Len(buckets) |->
        [ date                 |-> buckets[k].key_as_string,
          all_visitor_count    |-> buckets[k].userId_all,
          all_registered_count |-> buckets[k].userId_not_0,
          all_sign_up_count    |-> buckets[k].new_sign_up ] ]

\* The value pandas gives a row that the assigned Series has no label for.
NaN == 0 - 1

\* Mutant: the counts are joined in loop order (latest day first).
JoinRetentionLoopOrder(rows, ret) ==
    [ k \in 1..Len(rows) |->
        [ date                 |-> DaysFromCivil(rows[k].date),
          all_visitor_count    |-> rows[k].all_visitor_count,
          all_registered_count |-> rows[k].all_registered_count,
          all_sign_up_count    |-> rows[k].all_sign_up_count,
          retention_count      |-> IF k <= Len(ret)
                                   THEN ret[Len(ret) + 1 - k].retention_count
                                   ELSE NaN ] ]

\* Lines 167-177: the Series of retention counts is assigned by row label
\* 0..n-1, and the date strings are parsed to timestamps (day numbers).
JoinRetention(rows, ret) ==
    [ k \in 1..Len(rows) |->
        [ date                 |-> DaysFromCivil(rows[k].date),
          all_visitor_count    |-> rows[k].all_visitor_count,
          all_registered_count |-> rows[k].all_registered_count,
          all_sign_up_count    |-> rows[k].all_sign_up_count,
          retention_count      |-> IF k <= Len(ret) THEN ret[k].retention_count
                                   ELSE NaN ] ]

\* Lines 82-89: the three lists, reversed, as the rows of the DataFrame.
RetentionFrame(ds, rates, counts) ==
    [ k \in 1..Len(ds) |->
        [ Date            |-> Reverse(ds)[k],
          Retention_Rate  |-> Reverse(rates)[k],
          retention_count |-> Reverse(counts)[k] ] ]

(* ------------------------------ actions ------------------------------- *)
\* The frame of calculate_retention is gone: it returned or it raised.
ResetLocals ==
    /\ caller' = "none"
    /\ interval_days' = 0
    /\ pending' = {}
    /\ i' = 0
    /\ day_str' = NoDate
    /\ next_day_str' = NoDate
    /\ unique_userIds' = {}
    /\ dates' = << >>
    /\ retention_rates' = << >>
    /\ rentention_count' = << >>
    /\ fetched' = << >>
    /\ seen' = NoneSeen

\* Lines 52-56: calculate_retention(interval) is entered.
EnterRetention(who, interval) ==
    /\ caller' = who
    /\ interval_days' = interval
    /\ pending' = 1..NumDays
    /\ i' = 0
    /\ day_str' = NoDate
    /\ next_day_str' = NoDate
    /\ unique_userIds' = {}
    /\ dates' = << >>
    /\ retention_rates' = << >>
    /\ rentention_count' = << >>
    /\ fetched' = << >>
    /\ seen' = NoneSeen
    /\ retDf' = NoTable
    /\ pc' = "loop"

\* Lines 185, 149 and 92-95: calculate_funnel calls search_funnel.  A
\* fresh cached response is parsed (lines 152-165) and calculate_retention(1)
\* is called (line 168); otherwise the window is computed from the clock
\* and the query is sent (line 143).
FunnelSearch ==
    /\ pc = "funnel"
    /\ LET hits == FunnelHits(funnelCache, clock)
       IN  IF hits # {}
           THEN /\ data' = ParseBuckets((CHOOSE e \in hits : TRUE).val)
                /\ response' = [ buckets |-> (CHOOSE e \in hits : TRUE).val,
                                 at      |-> clock,
                                 hit     |-> TRUE ]
                /\ EnterRetention("funnel", 1)
                /\ UNCHANGED <<end_date, request>>
           ELSE /\ end_date' = EndDate(clock)
                /\ request' = Out("funnel", NoDate, "")
                /\ pc' = "search"
                /\ UNCHANGED <<data, response, retDf, locals>>
    /\ UNCHANGED <<clock, index, idCache, funnelCache, session, funnelDf,
                   gatewayLog, lastGet, failedOp, calls, aside>>

\* The gateway evaluates the query that is out, on the index as it is at
\* that moment, or fails.
GatewayAnswer ==
    /\ request.state = "out"
    /\ \E ok \in BOOLEAN :
         LET r == IF request.kind = "funnel"
                  THEN FunnelQuery(index, end_date, ok)
                  ELSE Search(index, request.date, request.name, ok)
         IN  request' = [ request EXCEPT !.state = "answered",
                                         !.err = r.err,
                                         !.val = r.val ]
    /\ UNCHANGED <<clock, index, idCache, funnelCache, pc, session, end_date,
                   data, retDf, funnelDf, response, gatewayLog, lastGet,
                   failedOp, calls, locals, aside>>

\* Lines 143-145 and 152-165: client.search returns the histogram, or
\* raises; the response is cached at the time it arrives and parsed, and
\* calculate_retention(1) is called (line 168).
FunnelResponse ==
    /\ pc = "search"
    /\ request.state = "answered"
    /\ LET r == [err |-> request.err, val |-> request.val]
       IN  /\ failedOp' = IF r.err THEN "funnel" ELSE failedOp
           /\ IF Propagates(r)
              THEN /\ pc' = "raised"
                   /\ ResetLocals
                   /\ UNCHANGED <<funnelCache, data, response, retDf>>
              ELSE /\ funnelCache' = IF r.err THEN funnelCache
                                     ELSE { [at |-> clock, val |-> r.val] }
                   /\ data' = ParseBuckets(r.val)
                   /\ response' = [ buckets |-> r.val,
                                    at      |-> end_date + 1 * DaySeconds,
                                    hit     |-> FALSE ]
                   /\ EnterRetention("funnel", 1)
    /\ end_date' = 0
    /\ request' = NoRequest
    /\ UNCHANGED <<clock, index, idCache, session, funnelDf, gatewayLog,
                   lastGet, calls, aside>>

\* The operation calculate_retention runs in.
Op == IF caller = "page" THEN "retention" ELSE "funnel"

\* Lines 56-63 for the offset o the iterator gives: the clock is read and
\* the two date strings are formatted.
LoopHead(o) ==
    /\ pc = "loop"
    /\ o \in pending
    /\ pending' = pending \ {o}
    /\ i' = o
    /\ day_str' = DayStr(clock, o, interval_days)
    /\ next_day_str' = NextDayStr(clock, o, interval_days)
    /\ dates' = Append(dates, DayStr(clock, o, interval_days))
    /\ fetched' = Append(fetched,
           [ day       |-> DayStr(clock, o, interval_days),
             next      |-> NextDayStr(clock, o, interval_days),
             cohort    |-> {},
             returning |-> {} ])
    /\ seen' = [ seen EXCEPT !.days = @ \cup { LocalNow(clock) \div DaySeconds } ]
    /\ pc' = "sign_up"
    /\ UNCHANGED <<clock, index, idCache, funnelCache, request, session,
                   end_date, caller, interval_days, unique_userIds,
                   retention_rates, rentention_count, data, retDf, funnelDf,
                   response, gatewayLog, lastGet, failedOp, calls, aside>>

\* range(1, 15) gives its values in ascending order.
RetentionNow ==
    /\ pending # {}
    /\ LoopHead(SetMin(pending))

\* Line 66 has returned val, from src: the cache or the gateway.
SignUpGot(val, log, src) ==
    /\ unique_userIds' = val
    /\ fetched' = [ fetched EXCEPT ![Len(fetched)].cohort = val ]
    /\ seen' = [ seen EXCEPT !.curs = @ \cup { Version(index) },
                             !.old = @ \/ LogOld(log, day_str, SIGN_UP),
                             !.src = @ \cup { src } ]
    /\ pc' = "root"
    /\ UNCHANGED <<caller, interval_days, pending, i, day_str, next_day_str,
                   dates, retention_rates, rentention_count>>

\* Line 67 has returned val: lines 69-79, and the loop goes on or ends.
RootGot(val, log, src) ==
    /\ rentention_count' = Append(rentention_count, RetentionCount(unique_userIds, val))
    /\ retention_rates' = Append(retention_rates, RetentionRate(unique_userIds, val))
    /\ fetched' = [ fetched EXCEPT ![Len(fetched)].returning = val ]
    /\ seen' = [ seen EXCEPT !.curs = @ \cup { Version(index) },
                             !.old = @ \/ LogOld(log, next_day_str, ROOT),
                             !.src = @ \cup { src } ]
    /\ pc' = IF pending = {} THEN "return" ELSE "loop"
    /\ UNCHANGED <<caller, interval_days, pending, i, day_str, next_day_str,
                   unique_userIds, dates>>

\* The call of line 66 or of line 67 has returned val.
Got(at, val, log, src) ==
    IF at = "sign_up" THEN SignUpGot(val, log, src) ELSE RootGot(val, log, src)

\* Lines 16-17: get_unique_user_ids(date, message_name) is called at pc =
\* at.  A fresh entry of the key is returned; otherwise the query of line
\* 18 is sent.
IdsCall(at, date, message_name) ==
    /\ pc = at
    /\ LET hits == CacheHits(idCache, IdCacheKey(date, message_name), clock)
       IN  IF hits # {}
           THEN /\ Got(at, (CHOOSE e \in hits : TRUE).val, gatewayLog, "cache")
                /\ UNCHANGED request
           ELSE /\ request' = Out("ids", date, message_name)
                /\ pc' = at \o "_wait"
                /\ UNCHANGED locals
    /\ UNCHANGED <<clock, index, idCache, funnelCache, session, end_date, data,
                   retDf, funnelDf, response, gatewayLog, lastGet, failedOp,
                   calls, aside>>

\* Lines 18-48: client.search returns, or raises; the set of the bucket
\* keys is stored under the key at the time it arrives, and returned.
IdsReturn(at, date, message_name) ==
    /\ pc = at \o "_wait"
    /\ request.state = "answered"
    /\ LET r   == [err |-> request.err, val |-> request.val]
           log == IF r.err THEN gatewayLog
                  ELSE LogPut(gatewayLog, date, message_name, clock, r.val,
                              request.old)
       IN  /\ idCache' = IF r.err THEN idCache
                         ELSE CachePut(idCache, IdCacheKey(date, message_name),
                                       clock, r.val)
           /\ gatewayLog' = log
           /\ failedOp' = IF r.err THEN Op ELSE failedOp
           /\ IF Propagates(r)
              THEN /\ pc' = "raised"
                   /\ ResetLocals
              ELSE Got(at, r.val, log, "gateway")
    /\ request' = NoRequest
    /\ UNCHANGED <<clock, index, funnelCache, session, end_date, data, retDf,
                   funnelDf, response, lastGet, calls, aside>>

\* Line 66: the sign-up set of day_str.
SignUpCall == IdsCall("sign_up", day_str, SIGN_UP)

SignUpReturn == IdsReturn("sign_up", day_str, SIGN_UP)

\* Line 67: the active set of next_day_str.
RootCall == IdsCall("root", next_day_str, ROOT)

RootReturn == IdsReturn("root", next_day_str, ROOT)

\* Lines 82-89: calculate_retention returns its DataFrame to its caller.
RetentionReturn ==
    /\ pc = "return"
    /\ retDf' = RetentionFrame(dates, retention_rates, rentention_count)
    /\ calls' = << [ interval |-> interval_days,
                     df       |-> RetentionFrame(dates, retention_rates, rentention_count),
                     log      |-> Reverse(fetched),
                     curs     |-> seen.curs \cup { Version(index) },
                     old      |-> seen.old,
                     src      |-> seen.src,
                     days     |-> seen.days ] >>
                  \o (IF calls = << >> THEN << >> ELSE << calls[1] >>)
    /\ pc' = IF caller = "funnel" THEN "join" ELSE "idle"
    /\ UNCHANGED <<clock, index, idCache, funnelCache, request, session,
                   end_date, data, funnelDf, response, gatewayLog, lastGet,
                   failedOp, locals, aside>>

\* Lines 167-177: the join.  With no rows at all the frame has no column
\* named date and line 169 raises AttributeError.
FunnelJoin ==
    /\ pc = "join"
    /\ IF Len(data) = 0
       THEN /\ pc' = "raised"
            /\ UNCHANGED funnelDf
       ELSE /\ pc' = "page"
            /\ funnelDf' = JoinRetention(data, retDf)
    /\ data' = << >>
    /\ ResetLocals
    /\ UNCHANGED <<clock, index, idCache, funnelCache, request, session,
                   end_date, retDf, response, gatewayLog, lastGet, failedOp,
                   calls, aside>>

\* Lines 263-264: the page calls calculate_retention(interval_days).
PageRetention ==
    /\ pc = "page"
    /\ EnterRetention("page", option)
    /\ UNCHANGED <<clock, index, idCache, funnelCache, request, session,
                   end_date, data, funnelDf, response, gatewayLog, lastGet,
                   failedOp, calls, aside>>

\* The user picks an option of the radio button (lines 244-263): the
\* script runs again from the top.  A run that raised is not followed
\* further.
Rerun ==
    /\ pc = "idle"
    /\ runs < MaxRuns
    /\ runs' = runs + 1
    /\ \E o \in 1..MaxOption : option' = interval_days_map[o]
    /\ pc' = "funnel"
    /\ funnelDf' = NoTable
    /\ retDf' = NoTable
    /\ response' = NoResponse
    /\ ResetLocals
    /\ UNCHANGED <<clock, index, idCache, funnelCache, request, end_date, data,
                   gatewayLog, lastGet, failedOp, calls, aside>>

\* Time passes, at any point of the script and while a request is out.
Tick ==
    /\ clock + TickSeconds <= StartTime + MaxTicks * TickSeconds
    /\ clock' = clock + TickSeconds
    /\ UNCHANGED <<index, idCache, funnelCache, request, pc, session, end_date,
                   data, retDf, funnelDf, response, gatewayLog, lastGet,
                   failedOp, calls, locals, aside>>

\* An event reaches the index, at any point of the script and while a
\* request is out.
IndexEvent ==
    /\ Version(index) < MaxIndexed
    /\ \E e \in LateEvents \ index :
         /\ index' = index \cup {e}
         /\ gatewayLog' = Outdate(gatewayLog, index, index \cup {e})
         /\ request' = OutdateRequest(request, index, index \cup {e})
         /\ other' = OutdateRequest(other, index, index \cup {e})
    /\ UNCHANGED <<clock, idCache, funnelCache, pc, session, end_date, data,
                   retDf, funnelDf, response, lastGet, failedOp, calls, locals,
                   ahead>>

InitState(p, opt, t) ==
    /\ clock = t
    /\ index \in InitialIndexes
    /\ idCache = {}
    /\ funnelCache = {}
    /\ request = NoRequest
    /\ pc = p
    /\ runs = 1
    /\ option = opt
    /\ end_date = 0
    /\ caller = "none"
    /\ interval_days = 0
    /\ pending = {}
    /\ i = 0
    /\ day_str = NoDate
    /\ next_day_str = NoDate
    /\ unique_userIds = {}
    /\ dates = << >>
    /\ retention_rates = << >>
    /\ rentention_count = << >>
    /\ data = << >>
    /\ retDf = NoTable
    /\ funnelDf = NoTable
    /\ fetched = << >>
    /\ seen = NoneSeen
    /\ response = NoResponse
    /\ gatewayLog = {}
    /\ lastGet = NoGet
    /\ failedOp = "none"
    /\ calls = << >>
    /\ other = NoRequest
    /\ ahead = 0

\* The page is opened: the script starts at line 185 with the first radio
\* option selected and both caches empty.
Init == InitState("funnel", interval_days_map[1], StartTime)

\* The page, run and run again, while the clock advances, the index grows
\* and the gateway answers.
Next ==
    \/ FunnelSearch
    \/ FunnelResponse
    \/ GatewayAnswer
    \/ RetentionNow
    \/ SignUpCall
    \/ SignUpReturn
    \/ RootCall
    \/ RootReturn
    \/ RetentionReturn
    \/ FunnelJoin
    \/ PageRetention
    \/ Rerun
    \/ Tick
    \/ IndexEvent

Spec == Init /\ [][Next]_vars

(* ============================ properties ============================== *)
\* The rows of a retention frame are in strictly ascending date order.
Ascending(df) == \A k \in 1..(Len(df) - 1) : DateLt(df[k].Date, df[k + 1].Date)

\* C1: every series calculate_retention returns has exactly 14 points in
\* strictly ascending date order, however the clock advances while the loop
\* runs.  (Violated: each iteration reads the clock again, on line 57, so a
\* midnight passed inside the loop repeats a date.)
C1_AscendingAlways ==
    retDf # NoTable => Len(retDf) = NumDays /\ Ascending(retDf)

\* C3: the series of a completed call covers exactly the 14 consecutive
\* days today - (interval_days + 13) .. today - interval_days, for today as
\* read during the call, and the point dated d is computed from the sign-up
\* set requested for day d and the active set requested for d + interval_days.
\* (Violated for the reason of C1.)
C3_WindowAlways ==
    calls # << >> =>
        LET c == calls[1]
        IN  /\ \E t \in c.days :
                 \A k \in 1..NumDays :
                    c.df[k].Date = CivilFromDays(t - c.interval - NumDays + k)
            /\ \A k \in 1..NumDays :
                 /\ c.log[k].day = c.df[k].Date
                 /\ DaysFromCivil(c.log[k].next)
                        = DaysFromCivil(c.df[k].Date) + c.interval

\* The local day on which calculate_funnel asked for the histogram.
FunnelToday == (response.at + TzOffset) \div DaySeconds

\* C4: calculate_funnel returns exactly 14 rows, one per day of the window
\* that ends yesterday, in chronological order.  (Violated: the histogram
\* holds buckets only from the first to the last day with an event inside
\* the range, and lines 153-165 make one row per bucket.)
C4_FourteenRows ==
    funnelDf # NoTable =>
        /\ Len(funnelDf) = NumDays
        /\ \A k \in 1..Len(funnelDf) :
             funnelDf[k].date = FunnelToday - (NumDays + 1) + k

\* C5: when calculate_funnel has returned, funnel row k and point k of the
\* retention(1) series it joined carry the same date, and both cover the
\* same number of days.  (Violated: the join of line 168 is by position.)
C5_Aligned ==
    (pc = "page" /\ funnelDf # NoTable) =>
        /\ Len(funnelDf) = Len(retDf)
        /\ \A k \in 1..Len(funnelDf) :
             k <= Len(retDf) /\ CivilFromDays(funnelDf[k].date) = retDf[k].Date

\* One point against the two sets served for it.
PointOK(date, count, rate, f) ==
    /\ f.day = date
    /\ 0 <= count
    /\ count <= Cardinality(f.cohort)
    /\ count = Cardinality(f.cohort \cap f.returning)
    /\ IF Cardinality(f.cohort) > 0
       THEN rate[2] > 0 /\ rate[1] * Cardinality(f.cohort) = count * rate[2]
       ELSE rate = <<0, 1>>

\* C2: every point, in the lists while the loop runs and in every frame
\* returned, has 0 <= retention_count <= |cohort|, retention_count =
\* |cohort \cap returning|, and retention_rate = retention_count / |cohort|
\* for a non-empty cohort, 0 for an empty one, where cohort and returning
\* are the sets get_unique_user_ids served for that point.
C2_CountAndRate ==
    /\ \A k \in 1..Len(rentention_count) :
         PointOK(dates[k], rentention_count[k], retention_rates[k], fetched[k])
    /\ calls # << >> =>
         \A k \in 1..Len(calls[1].df) :
            PointOK(calls[1].df[k].Date, calls[1].df[k].retention_count,
                    calls[1].df[k].Retention_Rate, calls[1].log[k])

\* A returned series holds the point of cohort {1,2,3} and returning
\* {2,3,4} (count 2, rate 2/3) and a point of an empty cohort (rate 0).
C2_Witness ==
    /\ calls # << >>
    /\ \E k \in 1..NumDays :
         /\ calls[1].log[k].cohort = {1, 2, 3}
         /\ calls[1].log[k].returning = {2, 3, 4}
         /\ calls[1].df[k].retention_count = 2
         /\ calls[1].df[k].Retention_Rate = <<2, 3>>
    /\ \E k \in 1..NumDays :
         /\ calls[1].log[k].cohort = {}
         /\ calls[1].log[k].returning # {}
         /\ calls[1].df[k].Retention_Rate = <<0, 1>>

\* C6: when the histogram holds 14 records and calculate_retention(1)
\* returned 14 points, calculate_funnel returns 14 rows; row k carries the
\* retention_count of point k and the three counts of record k unchanged.
C6_PositionalJoin ==
    (pc = "page" /\ Len(response.buckets) = NumDays /\ Len(retDf) = NumDays) =>
        /\ Len(funnelDf) = NumDays
        /\ \A k \in 1..NumDays :
             /\ funnelDf[k].retention_count = retDf[k].retention_count
             /\ funnelDf[k].all_visitor_count = response.buckets[k].userId_all
             /\ funnelDf[k].all_registered_count = response.buckets[k].userId_not_0
             /\ funnelDf[k].all_sign_up_count = response.buckets[k].new_sign_up

\* calculate_funnel returned from a histogram of 14 records, and the rows
\* carry counts that tell the positions apart.
C6_Witness ==
    /\ pc = "page"
    /\ Len(response.buckets) = NumDays
    /\ Len(funnelDf) = NumDays
    /\ funnelDf[NumDays - 1].retention_count = 2
    /\ funnelDf[NumDays - 1].all_sign_up_count >= 3
    /\ funnelDf[1].all_visitor_count = 1

\* C8: once a gateway call has failed inside calculate_funnel or
\* calculate_retention, that operation has raised: it returned no table.
C8_FailurePropagates ==
    /\ failedOp = "funnel" =>
         pc = "raised" /\ funnelDf = NoTable /\ retDf = NoTable
    /\ failedOp = "retention" => pc = "raised" /\ retDf = NoTable

\* An identifier query failed in the page's call after earlier iterations
\* had fetched their sets, and no frame was returned.
C8_Witness ==
    /\ failedOp = "retention"
    /\ pc = "raised"
    /\ retDf = NoTable
    /\ funnelDf # NoTable
    /\ \E e \in idCache : e.at = clock /\ e.at > StartTime

(* =============== get_unique_user_ids called on its own ================ *)
\* The days the calls ask for: yesterday and the day before.
CacheDates == { Strftime(LocalNow(StartTime) - k * DaySeconds) : k \in 1..2 }

InitCache == InitState("calls", 1, StartTime)

\* The set val is returned for (date, message_name).
Returned(date, message_name, val) ==
    [ date    |-> date,
      name    |-> message_name,
      val     |-> val,
      at      |-> clock,
      current |-> TermBucketUsers(index, date, message_name) ]

\* Lines 16-17: get_unique_user_ids(date, message_name) is called.  A fresh
\* entry of the key is returned; otherwise the query of line 18 is sent.
GetCall ==
    /\ pc = "calls"
    /\ \E date \in CacheDates, message_name \in {SIGN_UP, ROOT} :
         LET hits == CacheHits(idCache, IdCacheKey(date, message_name), clock)
         IN  IF hits # {}
             THEN /\ lastGet' = Returned(date, message_name,
                                         (CHOOSE e \in hits : TRUE).val)
                  /\ UNCHANGED <<request, pc>>
             ELSE /\ request' = Out("ids", date, message_name)
                  /\ pc' = "calls_wait"
                  /\ UNCHANGED lastGet
    /\ UNCHANGED <<clock, index, idCache, funnelCache, session, end_date, data,
                   retDf, funnelDf, response, gatewayLog, failedOp, calls,
                   locals, aside>>

\* Lines 18-48: client.search returns, or raises; the set is stored under
\* the key at the time it arrives, and returned.
GetReturn ==
    /\ pc = "calls_wait"
    /\ request.state = "answered"
    /\ LET r == [err |-> request.err, val |-> request.val]
       IN  IF Propagates(r)
           THEN UNCHANGED <<idCache, gatewayLog, lastGet>>
           ELSE /\ idCache' = IF r.err THEN idCache
                              ELSE CachePut(idCache,
                                            IdCacheKey(request.date, request.name),
                                            clock, r.val)
                /\ gatewayLog' = IF r.err THEN gatewayLog
                                 ELSE LogPut(gatewayLog, request.date, request.name,
                                             clock, r.val, request.old)
                /\ lastGet' = Returned(request.date, request.name, r.val)
    /\ request' = NoRequest
    /\ pc' = "calls"
    /\ UNCHANGED <<clock, index, funnelCache, session, end_date, data, retDf,
                   funnelDf, response, failedOp, calls, locals, aside>>

\* Time passes, between the calls and while a request is out, until
\* MaxTicks ticks after an entry of the start is older than TTL.
Advance ==
    /\ clock + TickSeconds <= StartTime + TTL + MaxTicks * TickSeconds
    /\ clock' = clock + TickSeconds
    /\ UNCHANGED <<index, idCache, funnelCache, request, pc, session, end_date,
                   data, retDf, funnelDf, response, gatewayLog, lastGet,
                   failedOp, calls, locals, aside>>

NextCache == GetCall \/ GatewayAnswer \/ GetReturn \/ Advance \/ IndexEvent

SpecCache == InitCache /\ [][NextCache]_vars

\* C10: the set get_unique_user_ids returns for (day, event name) is the
\* gateway's answer for that key as the index stands at the return, or an
\* answer of the gateway for that key that reached the program no more than
\* 3600 seconds before the return.
C10_CacheBounded ==
    lastGet # NoGet =>
        \/ lastGet.val = lastGet.current
        \/ \E g \in gatewayLog :
             /\ g.key = <<lastGet.date, lastGet.name>>
             /\ g.val = lastGet.val
             /\ g.at <= lastGet.at
             /\ lastGet.at - g.at <= TTL

\* A call was served a cached set that the index no longer gives, while
\* the cache also holds an entry for the other event name of the same day.
C10_Witness ==
    /\ lastGet # NoGet
    /\ lastGet.val # lastGet.current
    /\ \E g \in gatewayLog :
         /\ g.key = <<lastGet.date, lastGet.name>>
         /\ g.val = lastGet.val
         /\ lastGet.at - g.at = TickSeconds
    /\ \E e \in idCache : e.key[1] = lastGet.date /\ e.key[2] # lastGet.name

(* ============== calculate_retention called again and again ============ *)
\* calculate_retention(interval_days) is called up to MaxCalls times, at
\* noon or half an hour before midnight, while the index grows and, once,
\* the time to live of the cache elapses.
OrderStart == At(StartDay, 12, 0)

InitAgain ==
    \E o \in 1..MaxOption, t \in { OrderStart, StartTime } :
        InitState("page", interval_days_map[o], t)

\* The clock advances by the TTL, at any point: what is cached by then is
\* no longer served.
Expire ==
    /\ clock \in { OrderStart, StartTime }
    /\ clock' = clock + TTL
    /\ UNCHANGED <<index, idCache, funnelCache, request, pc, session, end_date,
                   data, retDf, funnelDf, response, gatewayLog, lastGet,
                   failedOp, calls, locals, aside>>

\* Lines 263-264, once more, with the same interval_days.
CallAgain ==
    /\ pc = "idle"
    /\ runs < MaxCalls
    /\ runs' = runs + 1
    /\ EnterRetention("page", option)
    /\ UNCHANGED <<clock, index, idCache, funnelCache, request, option,
                   end_date, data, funnelDf, response, gatewayLog, lastGet,
                   failedOp, calls, aside>>

NextAgain ==
    \/ PageRetention
    \/ GatewayAnswer
    \/ RetentionNow
    \/ SignUpCall
    \/ SignUpReturn
    \/ RootCall
    \/ RootReturn
    \/ RetentionReturn
    \/ CallAgain
    \/ Expire
    \/ IndexEvent

SpecAgain == InitAgain /\ [][NextAgain]_vars

\* The two latest completed calls had the same argument and ran on the
\* same, unchanging event data.
SameCallSameData ==
    /\ Len(calls) = 2
    /\ calls[1].interval = calls[2].interval
    /\ Cardinality(calls[1].curs) = 1
    /\ calls[1].curs = calls[2].curs

\* All the readings of the clock by the two calls fell on one calendar day.
SameDay ==
    /\ Cardinality(calls[1].days) = 1
    /\ calls[1].days = calls[2].days

\* C7 as stated: two calls of calculate_retention with the same
\* interval_days and the same event data return identical frames, whether
\* the sets came from the gateway or from the cache.  (Violated: the dates
\* move with the day of the call; and, on one day, a set computed before
\* the events changed is served to one call and fetched anew by the other.)
C7_IdempotentAlways ==
    SameCallSameData => calls[1].df = calls[2].df

\* C7 with the day fixed and nothing else: two calls with the same
\* interval_days and the same event data, all of whose readings of the clock
\* fall on one calendar day, return identical frames.  (Violated: the
\* earlier call is served a set cached before an event was indexed, the TTL
\* elapses, and the later call fetches the set again.)
C7_SameDayAlone ==
    (SameCallSameData /\ SameDay) => calls[1].df = calls[2].df

\* C7 amended: two calls with the same interval_days and the same event
\* data return identical frames when all their readings of the clock on
\* line 57 fall on one calendar day and no set served to them was computed
\* by the gateway before a change of the events it was computed from.
C7_IdempotentSameDay ==
    ( /\ SameCallSameData
      /\ SameDay
      /\ ~calls[1].old
      /\ ~calls[2].old )
    => calls[1].df = calls[2].df

\* After an event was indexed, one call was served every set from the
\* cache; the TTL elapsed; the next call, on the same day, fetched every set
\* from the gateway and returned the same frame, with a point that retains
\* users.
C7_Witness ==
    /\ SameCallSameData
    /\ SameDay
    /\ calls[1].curs = {1}
    /\ ~calls[1].old
    /\ ~calls[2].old
    /\ calls[2].src = {"cache"}
    /\ calls[1].src = {"gateway"}
    /\ \A e \in idCache : e.at = clock
    /\ \E k \in 1..NumDays : calls[1].df[k].retention_count >= 2

(* ===== calculate_retention while its queries are also sent by others == *)
\* calculate_retention(interval_days) is called twice on one day and on
\* the same events.  The first call runs alone, from an empty cache.  Before
\* and during the second, another caller of get_unique_user_ids (another session of the
\* page: the cache is shared) sends up to MaxAhead of the call's queries
\* itself, any of them, at any moment and while a query of the call is out,
\* so that the gateway executes the call's queries in another order.
InitOrder ==
    \E o \in 1..MaxOption : InitState("page", interval_days_map[o], OrderStart)

\* Lines 263-264, a second time.
SecondCall ==
    /\ pc = "idle"
    /\ Len(calls) = 1
    /\ EnterRetention("page", option)
    /\ UNCHANGED <<clock, index, idCache, funnelCache, request, session,
                   end_date, data, funnelDf, response, gatewayLog, lastGet,
                   failedOp, calls, aside>>

\* Between the two calls the TTL elapses: the second call finds no fresh
\* entry of the first.
ExpireBetween ==
    /\ pc = "idle"
    /\ Expire

\* The arguments of the 14 x 2 calls of lines 66-67.
OrderKeys ==
    { <<DayStr(clock, o, option), SIGN_UP>> : o \in 1..NumDays }
        \cup { <<NextDayStr(clock, o, option), ROOT>> : o \in 1..NumDays }

\* Lines 16-18: the other caller calls get_unique_user_ids with arguments of
\* the call, finds no fresh entry and sends the query.  (A call that finds
\* one returns it and changes nothing.)
OtherCall ==
    /\ Len(calls) = 1
    /\ ahead < MaxAhead
    /\ other.state = "none"
    /\ \E k \in OrderKeys :
         /\ CacheHits(idCache, IdCacheKey(k[1], k[2]), clock) = {}
         /\ other' = Out("ids", k[1], k[2])
    /\ ahead' = ahead + 1
    /\ UNCHANGED <<clock, index, idCache, funnelCache, request, pc, session,
                   end_date, data, retDf, funnelDf, response, gatewayLog,
                   lastGet, failedOp, calls, locals>>

\* The gateway evaluates the other caller's query, or fails.
OtherAnswer ==
    /\ other.state = "out"
    /\ \E ok \in BOOLEAN :
         LET r == Search(index, other.date, other.name, ok)
         IN  other' = [ other EXCEPT !.state = "answered",
                                     !.err = r.err,
                                     !.val = r.val ]
    /\ UNCHANGED <<clock, index, idCache, funnelCache, request, pc, session,
                   end_date, data, retDf, funnelDf, response, gatewayLog,
                   lastGet, failedOp, calls, locals, ahead>>

\* Lines 18-48 for the other caller: client.search returns and the set is
\* stored under the key, or it raises and nothing is stored.
OtherReturn ==
    /\ other.state = "answered"
    /\ idCache' = IF other.err THEN idCache
                  ELSE CachePut(idCache, IdCacheKey(other.date, other.name),
                                clock, other.val)
    /\ gatewayLog' = IF other.err THEN gatewayLog
                     ELSE LogPut(gatewayLog, other.date, other.name, clock,
                                 other.val, other.old)
    /\ other' = NoRequest
    /\ UNCHANGED <<clock, index, funnelCache, request, pc, session, end_date,
                   data, retDf, funnelDf, response, lastGet, failedOp, calls,
                   locals, ahead>>

NextOrder ==
    \/ PageRetention
    \/ GatewayAnswer
    \/ RetentionNow
    \/ SignUpCall
    \/ SignUpReturn
    \/ RootCall
    \/ RootReturn
    \/ RetentionReturn
    \/ ExpireBetween
    \/ SecondCall
    \/ OtherCall
    \/ OtherAnswer
    \/ OtherReturn

SpecOrder == InitOrder /\ [][NextOrder]_vars

\* C9: for fixed data and a fixed today, the series calculate_retention
\* returns is the same in whatever order its identifier queries are
\* executed: the call during which some of them were sent ahead of the
\* loop, in any order, returns the series of the call that sent them all in
\* the order of the loop.
C9_OrderIndependent ==
    Len(calls) = 2 => calls[1].df = calls[2].df

\* After the cached sets had expired, the second call was served sets from
\* the cache and from the gateway: MaxAhead of its queries had been sent by
\* the other caller, every set was fetched again, and a point retains two
\* users.
C9_Witness ==
    /\ Len(calls) = 2
    /\ ahead = MaxAhead
    /\ other.state = "none"
    /\ calls[1].src = {"cache", "gateway"}
    /\ calls[2].src = {"gateway"}
    /\ \A e \in idCache : e.at = OrderStart + TTL
    /\ \E k \in 1..NumDays : calls[1].df[k].retention_count = 2

====
